---- MODULE Spec2Model ----
(***************************************************************************)
(* A model of nanomachine's Machine<S, E> (src/src/lib.rs): the transition *)
(* table, the callback registry, and the trigger operation with its        *)
(* type-erased payload dispatch.                                           *)
(***************************************************************************)
EXTENDS Integers, Sequences, FiniteSets, TLC

\* ---------------------------------------------------------------- bounds
\* The longest mapping handed to when_iter.
MaxPairs == 2
\* The most callbacks registered on one machine.
MaxCallbacks == 2

\* ------------------------------------------------------- the input values
\* S and E are generic parameters; two states and two events stand for them.
States == {"Idle", "Running"}
Events == {"Start", "Pause"}
\* A machine that holds callbacks defines transitions for these events only;
\* a machine without callbacks defines them for every event.
CallbackEvents == {"Start"}

\* The runtime types a payload can have; "unit" is Rust's ().
PayloadTypes == {"unit", "u32", "String"}
\* The payload types P callbacks are registered with.
CallbackTypes == {"unit", "u32"}
UnitPayload == [type |-> "unit", val |-> 0]
Payloads ==
  {UnitPayload, [type |-> "u32", val |-> 5], [type |-> "u32", val |-> 10],
   [type |-> "String", val |-> 7]}

\* Placeholders of the operation log.
NoEvent == "none"
NoState == "none"
NoPayload == [type |-> "none", val |-> 0]

VARIABLES
  state,        \* Machine.state
  transitions,  \* Machine.transitions: event -> (source -> destination)
  callbacks,    \* Machine.callbacks: trigger key -> sequence of thunks
  last,         \* the last operation applied and what it returned
  dispatched,   \* the thunks the last trigger called, in call order
  invoked,      \* the user callbacks the last trigger ran, in order
  latest,       \* history: the destination of the latest definition of (e, s)
  configured,   \* history: when or when_iter has been called
  machines,     \* the machines of a clone scenario: original, then clone
  heap          \* the hash maps those machines own, by address

vars ==
  <<state, transitions, callbacks, last, dispatched, invoked, latest,
    configured, machines, heap>>

\* ------------------------------------------------------------ hash maps
EmptyMap == [x \in {} |-> x]

\* Mutant of MapInsert: the value of a key already present is kept
\* (entry(k).or_insert(v)).
MapInsert_KeepOld(m, k, v) ==
  [x \in DOMAIN m \cup {k} |-> IF x \in DOMAIN m THEN m[x] ELSE v]

\* HashMap::insert: the value under k is replaced.
MapInsert(m, k, v) == [x \in DOMAIN m \cup {k} |-> IF x = k THEN v ELSE m[x]]

\* HashMap::entry(k).or_default(): the map with k present.
EntryOrDefault(m, k, default) ==
  IF k \in DOMAIN m THEN m ELSE MapInsert(m, k, default)

\* HashMap::extend: insert every pair, in the order the iterator yields them.
RECURSIVE Extend(_, _)
Extend(m, pairs) ==
  IF pairs = <<>> THEN m
  ELSE Extend(MapInsert(m, Head(pairs)[1], Head(pairs)[2]), Tail(pairs))

\* Trigger<S>
StateKey(s) == [tag |-> "State", s |-> s]
AnyState == [tag |-> "AnyState", s |-> NoState]
TriggerKeys == {StateKey(s) : s \in States} \cup {AnyState}

\* ------------------------------------------------------------- queries
\* Mutant of states: the destinations are left out.
states_SourcesOnly(t) == UNION {DOMAIN t[e] : e \in DOMAIN t}

\* Machine::states
states(t) ==
  UNION {DOMAIN t[e] \cup {t[e][s] : s \in DOMAIN t[e]} : e \in DOMAIN t}

\* Machine::events
events(t) == DOMAIN t

\* Mutant of triggerable_events: the filter on the current state is left out.
triggerable_events_All(t, s) == DOMAIN t

\* Mutant of triggerable_events: every event that has a transition from some
\* state is listed.
triggerable_events_AnySource(t, s) ==
  {e \in DOMAIN t : DOMAIN t[e] # {}}

\* Machine::triggerable_events
triggerable_events(t, s) == {e \in DOMAIN t : s \in DOMAIN t[e]}

\* ------------------------------------------------------ table definitions
\* Mutant of WhenTable: the event's inner map is replaced by one holding the
\* new pair only.
WhenTable_ReplaceInner(t, event, s, new_state) ==
  MapInsert(t, event, MapInsert(EmptyMap, s, new_state))

\* Machine::when on the table
WhenTable(t, event, s, new_state) ==
  LET t1 == EntryOrDefault(t, event, EmptyMap)
  IN  [t1 EXCEPT ![event] = MapInsert(t1[event], s, new_state)]

\* Machine::when_iter on the table
WhenIterTable(t, event, mapping) ==
  LET t1 == EntryOrDefault(t, event, EmptyMap)
  IN  [t1 EXCEPT ![event] = Extend(t1[event], mapping)]

NumEntries(t) ==
  Cardinality({es \in Events \X States :
                 es[1] \in DOMAIN t /\ es[2] \in DOMAIN t[es[1]]})

\* ------------------------------------------------------------ callbacks
\* The thunk on_enter / on_transition build: it ignores the payload.
PlainThunk == [kind |-> "plain", ptype |-> "none"]

\* Machine::wrap_callback: the thunk closes over the payload type P.
wrap_callback(P) == [kind |-> "typed", ptype |-> P]

\* Mutant of PushCallback: the new thunk goes to the front of the list.
PushCallback_Prepend(cbs, key, thunk) ==
  LET c1 == EntryOrDefault(cbs, key, <<>>)
  IN  [c1 EXCEPT ![key] = <<thunk>> \o c1[key]]

\* callbacks.entry(key).or_default().push(callback)
PushCallback(cbs, key, thunk) ==
  LET c1 == EntryOrDefault(cbs, key, <<>>)
  IN  [c1 EXCEPT ![key] = Append(c1[key], thunk)]

RECURSIVE SumLen(_, _)
SumLen(cbs, keys) ==
  IF keys = {} THEN 0
  ELSE LET k == CHOOSE x \in keys : TRUE
       IN  Len(cbs[k]) + SumLen(cbs, keys \ {k})

NumCallbacks(cbs) == SumLen(cbs, DOMAIN cbs)

\* Mutant of Downcast: every payload passes for a P.
Downcast_Always(payload, P) == TRUE

\* payload.downcast_ref::<P>().is_some()
Downcast(payload, P) == payload.type = P

\* Mutant of CallThunk: a no-payload callback is wrapped as one that expects
\* the unit type.
CallThunk_PlainAsUnit(c, event, payload) ==
  IF c.thunk.kind = "plain"
    THEN IF payload.type = "unit"
           THEN <<[key |-> c.key, idx |-> c.idx, event |-> event,
                   payload |-> NoPayload]>>
           ELSE <<>>
  ELSE IF payload.type = c.thunk.ptype
    THEN <<[key |-> c.key, idx |-> c.idx, event |-> event,
            payload |-> payload]>>
  ELSE <<>>

\* Mutant of CallThunk: a payload callback is handed the default value of its
\* type, not the value of the trigger.
CallThunk_DefaultPayload(c, event, payload) ==
  IF c.thunk.kind = "plain"
    THEN <<[key |-> c.key, idx |-> c.idx, event |-> event,
            payload |-> NoPayload]>>
  ELSE IF Downcast(payload, c.thunk.ptype)
    THEN <<[key |-> c.key, idx |-> c.idx, event |-> event,
            payload |-> [type |-> c.thunk.ptype, val |-> 0]]>>
  ELSE <<>>

\* Calling one thunk: the user callback runs, with the arguments it is given,
\* or the call is a no-op. A callback is named by its place in the registry.
CallThunk(c, event, payload) ==
  IF c.thunk.kind = "plain"
    THEN <<[key |-> c.key, idx |-> c.idx, event |-> event,
            payload |-> NoPayload]>>
  ELSE IF Downcast(payload, c.thunk.ptype)
    THEN <<[key |-> c.key, idx |-> c.idx, event |-> event,
            payload |-> payload]>>
  ELSE <<>>

\* callbacks.get(key), an Option flattened to the thunks it holds
GetCallbacks(cbs, key) ==
  IF key \in DOMAIN cbs
    THEN [i \in 1..Len(cbs[key]) |->
            [key |-> key, idx |-> i, thunk |-> cbs[key][i]]]
    ELSE <<>>

\* Mutant of Selected: the any-state thunks are chained first.
Selected_AnyFirst(cbs, s) ==
  GetCallbacks(cbs, AnyState) \o GetCallbacks(cbs, StateKey(s))

\* state_cbs.into_iter().chain(any_cbs.into_iter()).flatten()
Selected(cbs, s) == GetCallbacks(cbs, StateKey(s)) \o GetCallbacks(cbs, AnyState)

\* Mutant of Lookup: the destination found is not assigned.
Lookup_NoAssign(t, s, event) ==
  IF event \notin DOMAIN t
    THEN [result |-> "EventInvalid", state |-> s]
  ELSE IF s \notin DOMAIN t[event]
    THEN [result |-> "StateInvalid", state |-> s]
  ELSE [result |-> "Ok", state |-> s]

\* Mutant of Lookup: both failures are reported as EventInvalid.
Lookup_OneError(t, s, event) ==
  IF event \notin DOMAIN t \/ s \notin DOMAIN t[event]
    THEN [result |-> "EventInvalid", state |-> s]
  ELSE [result |-> "Ok", state |-> t[event][s]]

\* Mutant of Lookup: an event the table does not hold is reported as
\* StateInvalid.
Lookup_UnknownEventIsStateInvalid(t, s, event) ==
  IF event \notin DOMAIN t \/ s \notin DOMAIN t[event]
    THEN [result |-> "StateInvalid", state |-> s]
  ELSE [result |-> "Ok", state |-> t[event][s]]

\* The lookup of trigger_with and the state it assigns.
Lookup(t, s, event) ==
  IF event \notin DOMAIN t
    THEN [result |-> "EventInvalid", state |-> s]
  ELSE IF s \notin DOMAIN t[event]
    THEN [result |-> "StateInvalid", state |-> s]
  ELSE [result |-> "Ok", state |-> t[event][s]]

\* The for loop of trigger_with: each thunk called, with the machine's state
\* at the time of the call.
Calls(thunks, s) ==
  [i \in 1..Len(thunks) |->
     [key |-> thunks[i].key, idx |-> thunks[i].idx, at |-> s]]

\* Mutant of RunAll: a thunk registered again under the same key is called
\* once.
RECURSIVE RunAll_SkipRepeated(_, _, _)
RunAll_SkipRepeated(thunks, event, payload) ==
  IF thunks = <<>> THEN <<>>
  ELSE CallThunk(Head(thunks), event, payload)
         \o RunAll_SkipRepeated(
              SelectSeq(Tail(thunks),
                        LAMBDA c : \/ c.key # Head(thunks).key
                                   \/ c.thunk # Head(thunks).thunk),
              event, payload)

RECURSIVE RunAll(_, _, _)
RunAll(thunks, event, payload) ==
  IF thunks = <<>> THEN <<>>
  ELSE CallThunk(Head(thunks), event, payload)
         \o RunAll(Tail(thunks), event, payload)

\* ---------------------------------------------------------------- history
NoDest == "none"

RECURSIVE DefineAll(_, _, _)
DefineAll(l, event, pairs) ==
  IF pairs = <<>> THEN l
  ELSE DefineAll([l EXCEPT ![<<event, Head(pairs)[1]>>] = Head(pairs)[2]],
                 event, Tail(pairs))

\* The log entry of an operation: its name and arguments, the state it was
\* applied in, what it returned and, for when, the destination it overwrote.
Op(name, event, pre, mapping, old, payload, result) ==
  [op |-> name, event |-> event, pre |-> pre, mapping |-> mapping,
   old |-> old, payload |-> payload, result |-> result]

\* ------------------------------------------------------------------ Init
\* Machine::new(initial_state)
Init ==
  \E initial_state \in States :
    /\ state = initial_state
    /\ transitions = EmptyMap
    /\ callbacks = EmptyMap
    /\ last = Op("new", NoEvent, initial_state, <<>>, NoDest, NoPayload,
                 "none")
    /\ dispatched = <<>>
    /\ invoked = <<>>
    /\ latest = [es \in Events \X States |-> NoDest]
    /\ configured = FALSE
    /\ machines = <<>>
    /\ heap = <<>>

\* --------------------------------------------------------------- actions
\* The bound on the table once callbacks are registered.
TableBound(t) == callbacks = EmptyMap \/ DOMAIN t \subseteq CallbackEvents

\* Mutant of when: defining a transition also moves the machine to its
\* destination.
when_MovesState(event, s, new_state) ==
  LET t2 == WhenTable(transitions, event, s, new_state)
  IN  /\ TableBound(t2)
      /\ transitions' = t2
      /\ state' = new_state
      /\ last' = Op("when", event, state, <<<<s, new_state>>>>,
                    latest[<<event, s>>], NoPayload, "none")
      /\ dispatched' = <<>>
      /\ invoked' = <<>>
      /\ latest' = DefineAll(latest, event, <<<<s, new_state>>>>)
      /\ configured' = TRUE
      /\ UNCHANGED <<callbacks, machines, heap>>

\* Machine::when
when(event, s, new_state) ==
  LET t2 == WhenTable(transitions, event, s, new_state)
  IN  /\ TableBound(t2)
      /\ transitions' = t2
      /\ last' = Op("when", event, state, <<<<s, new_state>>>>,
                    latest[<<event, s>>], NoPayload, "none")
      /\ dispatched' = <<>>
      /\ invoked' = <<>>
      /\ latest' = DefineAll(latest, event, <<<<s, new_state>>>>)
      /\ configured' = TRUE
      /\ UNCHANGED <<state, callbacks, machines, heap>>

PairSeqs == UNION {[1..n -> States \X States] : n \in 0..MaxPairs}

\* Machine::when_iter
when_iter(event, mapping) ==
  LET t2 == WhenIterTable(transitions, event, mapping)
  IN  /\ TableBound(t2)
      /\ transitions' = t2
      /\ last' = Op("when_iter", event, state, <<>>, NoDest, NoPayload, "none")
      /\ dispatched' = <<>>
      /\ invoked' = <<>>
      /\ latest' = DefineAll(latest, event, mapping)
      /\ configured' = TRUE
      /\ UNCHANGED <<state, callbacks, machines, heap>>

\* The bound on the registry.
RegistryBound ==
  /\ DOMAIN transitions \subseteq CallbackEvents
  /\ NumCallbacks(callbacks) < MaxCallbacks

\* The log entry of a registration.
Registered(name) == Op(name, NoEvent, state, <<>>, NoDest, NoPayload, "none")

\* Machine::on_enter
on_enter(s) ==
  /\ RegistryBound
  /\ callbacks' = PushCallback(callbacks, StateKey(s), PlainThunk)
  /\ last' = Registered("on_enter")
  /\ dispatched' = <<>>
  /\ invoked' = <<>>
  /\ UNCHANGED <<state, transitions, latest, configured, machines, heap>>

\* Machine::on_enter_with::<P>
on_enter_with(s, P) ==
  /\ RegistryBound
  /\ callbacks' = PushCallback(callbacks, StateKey(s), wrap_callback(P))
  /\ last' = Registered("on_enter_with")
  /\ dispatched' = <<>>
  /\ invoked' = <<>>
  /\ UNCHANGED <<state, transitions, latest, configured, machines, heap>>

\* Machine::on_transition
on_transition ==
  /\ RegistryBound
  /\ callbacks' = PushCallback(callbacks, AnyState, PlainThunk)
  /\ last' = Registered("on_transition")
  /\ dispatched' = <<>>
  /\ invoked' = <<>>
  /\ UNCHANGED <<state, transitions, latest, configured, machines, heap>>

\* Machine::on_transition_with::<P>
on_transition_with(P) ==
  /\ RegistryBound
  /\ callbacks' = PushCallback(callbacks, AnyState, wrap_callback(P))
  /\ last' = Registered("on_transition_with")
  /\ dispatched' = <<>>
  /\ invoked' = <<>>
  /\ UNCHANGED <<state, transitions, latest, configured, machines, heap>>

\* Mutant of TriggerWith: the callbacks are selected by the state the machine
\* is leaving.
TriggerWith_SelectBySource(t, cbs, s, event, payload) ==
  LET r == Lookup(t, s, event)
      thunks == IF r.result = "Ok" THEN Selected(cbs, s) ELSE <<>>
  IN  [result |-> r.result, state |-> r.state,
       dispatched |-> Calls(thunks, r.state),
       invoked |-> RunAll(thunks, event, payload)]

\* Mutant of TriggerWith: the callbacks run before the new state is assigned.
TriggerWith_CallbacksBeforeAssign(t, cbs, s, event, payload) ==
  LET r == Lookup(t, s, event)
      thunks == IF r.result = "Ok" THEN Selected(cbs, r.state) ELSE <<>>
  IN  [result |-> r.result, state |-> r.state,
       dispatched |-> Calls(thunks, s),
       invoked |-> RunAll(thunks, event, payload)]

\* Mutant of TriggerWith: a selected callback whose payload type differs from
\* the payload of the trigger makes the trigger fail.
TriggerWith_FailOnMismatch(t, cbs, s, event, payload) ==
  LET r == Lookup(t, s, event)
      thunks == IF r.result = "Ok" THEN Selected(cbs, r.state) ELSE <<>>
      mismatch == \E i \in 1..Len(thunks) :
                    /\ thunks[i].thunk.kind = "typed"
                    /\ ~Downcast(payload, thunks[i].thunk.ptype)
  IN  IF mismatch
        THEN [result |-> "StateInvalid", state |-> s, dispatched |-> <<>>,
              invoked |-> <<>>]
        ELSE [result |-> r.result, state |-> r.state,
              dispatched |-> Calls(thunks, r.state),
              invoked |-> RunAll(thunks, event, payload)]

\* Mutant of TriggerWith: the any-state callbacks run on a failed trigger too.
TriggerWith_AnyStateOnFailure(t, cbs, s, event, payload) ==
  LET r == Lookup(t, s, event)
      thunks == IF r.result = "Ok" THEN Selected(cbs, r.state)
                ELSE GetCallbacks(cbs, AnyState)
  IN  [result |-> r.result, state |-> r.state,
       dispatched |-> Calls(thunks, r.state),
       invoked |-> RunAll(thunks, event, payload)]

\* Mutant of TriggerWith: a transition to the state the machine is in already
\* runs no callback.
TriggerWith_SkipSelfTransition(t, cbs, s, event, payload) ==
  LET r == Lookup(t, s, event)
      thunks == IF r.result = "Ok" /\ r.state # s
                  THEN Selected(cbs, r.state) ELSE <<>>
  IN  [result |-> r.result, state |-> r.state,
       dispatched |-> Calls(thunks, r.state),
       invoked |-> RunAll(thunks, event, payload)]

\* The body of trigger_with on a machine in state s: the result returned, the
\* state assigned, the thunks called and the user callbacks they ran.
TriggerWith(t, cbs, s, event, payload) ==
  LET r == Lookup(t, s, event)
      thunks == IF r.result = "Ok" THEN Selected(cbs, r.state) ELSE <<>>
  IN  [result |-> r.result, state |-> r.state,
       dispatched |-> Calls(thunks, r.state),
       invoked |-> RunAll(thunks, event, payload)]

\* Machine::trigger_with::<P>
trigger_with(event, payload) ==
  LET r == TriggerWith(transitions, callbacks, state, event, payload)
  IN  /\ state' = r.state
      /\ dispatched' = r.dispatched
      /\ invoked' = r.invoked
      /\ last' = Op("trigger_with", event, state, <<>>, NoDest, payload,
                    r.result)
      /\ UNCHANGED <<transitions, callbacks, latest, configured, machines,
                     heap>>

\* Mutant of trigger: the bare trigger carries no payload at all, not the
\* unit value.
trigger_NoPayload(event) ==
  LET r == TriggerWith(transitions, callbacks, state, event, NoPayload)
  IN  /\ state' = r.state
      /\ dispatched' = r.dispatched
      /\ invoked' = r.invoked
      /\ last' = Op("trigger", event, state, <<>>, NoDest, UnitPayload,
                    r.result)
      /\ UNCHANGED <<transitions, callbacks, latest, configured, machines,
                     heap>>

\* Machine::trigger: trigger_with(event, &())
trigger(event) ==
  LET r == TriggerWith(transitions, callbacks, state, event, UnitPayload)
  IN  /\ state' = r.state
      /\ dispatched' = r.dispatched
      /\ invoked' = r.invoked
      /\ last' = Op("trigger", event, state, <<>>, NoDest, UnitPayload,
                    r.result)
      /\ UNCHANGED <<transitions, callbacks, latest, configured, machines,
                     heap>>

Next ==
  \/ \E e \in Events, s \in States, n \in States : when(e, s, n)
  \/ \E e \in Events, m \in PairSeqs : when_iter(e, m)
  \/ \E s \in States : on_enter(s)
  \/ \E s \in States, P \in CallbackTypes : on_enter_with(s, P)
  \/ on_transition
  \/ \E P \in CallbackTypes : on_transition_with(P)
  \/ \E e \in Events : trigger(e)
  \/ \E e \in Events, p \in Payloads : trigger_with(e, p)

Spec == Init /\ [][Next]_vars

\* ----------------------------------------------------------------- clone
\* A second specification: one machine is built, cloned once, and the two
\* copies are operated on. A machine owns its two hash maps; it is modelled
\* by its state and the addresses of the maps in the heap.
MaxCloneSize == 3

\* The machine at position i as its operations see it.
View(i) ==
  [state |-> machines[i].state,
   transitions |-> heap[machines[i].transitions],
   callbacks |-> heap[machines[i].callbacks]]

\* Mutant of CloneMachine: the clone refers to the maps of the original.
CloneMachine_Shallow(h, m) == [heap |-> h, machine |-> m]

\* #[derive(Clone)] on Machine: the state is cloned and each HashMap is
\* cloned into a map of its own; a cloned Vec holds the same Rc thunks.
CloneMachine(h, m) ==
  LET h1 == Append(h, h[m.transitions])
      h2 == Append(h1, h[m.callbacks])
  IN  [heap |-> h2,
       machine |-> [state |-> m.state, transitions |-> Len(h1),
                    callbacks |-> Len(h2)]]

\* The transitions and callbacks the machines of ms hold in h, all told.
RECURSIVE CloneSize(_, _)
CloneSize(ms, h) ==
  IF ms = <<>> THEN 0
  ELSE NumEntries(h[Head(ms).transitions])
         + NumCallbacks(h[Head(ms).callbacks])
         + CloneSize(Tail(ms), h)

\* The bound of the clone scenario.
CloneBound(ms, h) == CloneSize(ms, h) <= MaxCloneSize

\* The mappings when_iter is given in the clone scenario.
ClonePairSeqs == {m \in PairSeqs : Len(m) <= 1}

\* Machine::new(initial_state), the only machine so far
CloneInit ==
  \E initial_state \in States :
    /\ machines = <<[state |-> initial_state, transitions |-> 1,
                     callbacks |-> 2]>>
    /\ heap = <<EmptyMap, EmptyMap>>
    /\ state = initial_state
    /\ transitions = EmptyMap
    /\ callbacks = EmptyMap
    /\ last = Op("new", NoEvent, initial_state, <<>>, NoDest, NoPayload,
                 "none")
    /\ dispatched = <<>>
    /\ invoked = <<>>
    /\ latest = [es \in Events \X States |-> NoDest]
    /\ configured = FALSE

\* What a clone scenario leaves alone: the machine of Spec and its history.
CloneFrame ==
  UNCHANGED <<state, transitions, callbacks, last, dispatched, invoked,
              latest, configured>>

\* Machine::clone, on the original
clone ==
  LET c == CloneMachine(heap, machines[1])
  IN  /\ Len(machines) = 1
      /\ machines' = Append(machines, c.machine)
      /\ heap' = c.heap
      /\ CloneBound(machines', heap')
      /\ CloneFrame

\* Machine::when on machine i
when_on(i, event, s, new_state) ==
  /\ heap' = [heap EXCEPT ![machines[i].transitions] =
                WhenTable(View(i).transitions, event, s, new_state)]
  /\ CloneBound(machines, heap')
  /\ UNCHANGED machines
  /\ CloneFrame

\* Machine::when_iter on machine i
when_iter_on(i, event, mapping) ==
  /\ heap' = [heap EXCEPT ![machines[i].transitions] =
                WhenIterTable(View(i).transitions, event, mapping)]
  /\ CloneBound(machines, heap')
  /\ UNCHANGED machines
  /\ CloneFrame

\* Machine::on_enter on machine i
on_enter_on(i, s) ==
  /\ heap' = [heap EXCEPT ![machines[i].callbacks] =
                PushCallback(View(i).callbacks, StateKey(s), PlainThunk)]
  /\ CloneBound(machines, heap')
  /\ UNCHANGED machines
  /\ CloneFrame

\* Machine::on_enter_with::<P> on machine i
on_enter_with_on(i, s, P) ==
  /\ heap' = [heap EXCEPT ![machines[i].callbacks] =
                PushCallback(View(i).callbacks, StateKey(s), wrap_callback(P))]
  /\ CloneBound(machines, heap')
  /\ UNCHANGED machines
  /\ CloneFrame

\* Machine::on_transition on machine i
on_transition_on(i) ==
  /\ heap' = [heap EXCEPT ![machines[i].callbacks] =
                PushCallback(View(i).callbacks, AnyState, PlainThunk)]
  /\ CloneBound(machines, heap')
  /\ UNCHANGED machines
  /\ CloneFrame

\* Machine::on_transition_with::<P> on machine i
on_transition_with_on(i, P) ==
  /\ heap' = [heap EXCEPT ![machines[i].callbacks] =
                PushCallback(View(i).callbacks, AnyState, wrap_callback(P))]
  /\ CloneBound(machines, heap')
  /\ UNCHANGED machines
  /\ CloneFrame

\* Machine::trigger_with::<P> on machine i
trigger_with_on(i, event, payload) ==
  LET r == TriggerWith(View(i).transitions, View(i).callbacks, View(i).state,
                       event, payload)
  IN  /\ machines' = [machines EXCEPT ![i].state = r.state]
      /\ UNCHANGED heap
      /\ CloneFrame

\* Machine::trigger on machine i
trigger_on(i, event) ==
  LET r == TriggerWith(View(i).transitions, View(i).callbacks, View(i).state,
                       event, UnitPayload)
  IN  /\ machines' = [machines EXCEPT ![i].state = r.state]
      /\ UNCHANGED heap
      /\ CloneFrame

\* The machines there are to operate on.
Copies == 1..Len(machines)

CloneNext ==
  \/ clone
  \/ \E i \in Copies, e \in CallbackEvents, s \in States, n \in States :
       when_on(i, e, s, n)
  \/ \E i \in Copies, e \in CallbackEvents, m \in ClonePairSeqs :
       when_iter_on(i, e, m)
  \/ \E i \in Copies, s \in States : on_enter_on(i, s)
  \/ \E i \in Copies, s \in States, P \in CallbackTypes :
       on_enter_with_on(i, s, P)
  \/ \E i \in Copies : on_transition_on(i)
  \/ \E i \in Copies, P \in CallbackTypes : on_transition_with_on(i, P)
  \/ \E i \in Copies, e \in Events : trigger_on(i, e)
  \/ \E i \in Copies, e \in Events, p \in Payloads :
       trigger_with_on(i, e, p)

CloneSpec == CloneInit /\ [][CloneNext]_vars

\* ------------------------------------------------------- claim vocabulary
\* The last operation was a trigger or a trigger_with.
IsTrigger == last.op \in {"trigger", "trigger_with"}

\* The last operation was a trigger that returned Ok.
TriggeredOk == IsTrigger /\ last.result = "Ok"

\* A definition of (e, s) has been made, by when or by when_iter.
Defined(e, s) == latest[<<e, s>>] # NoDest

\* Some transition of e has been defined.
EventDefined(e) == \E s \in States : Defined(e, s)

\* The callbacks a transition into s selects, by their place in the registry.
SelectedPlaces(s) ==
  {<<k, i>> \in TriggerKeys \X (1..MaxCallbacks) :
     /\ k \in {StateKey(s), AnyState}
     /\ k \in DOMAIN callbacks
     /\ i <= Len(callbacks[k])}

\* The last trigger ran the user callback at place (k, i).
Invoked(k, i) ==
  \E j \in 1..Len(invoked) : invoked[j].key = k /\ invoked[j].idx = i

\* The last trigger called the thunk at place (k, i).
Dispatched(k, i) ==
  \E j \in 1..Len(dispatched) : dispatched[j].key = k /\ dispatched[j].idx = i

\* ---------------------------------------------------------------- claims
\* C1: a trigger of event e from state s1, when the latest definition of
\* (e, s1) has destination s2, returns Ok and leaves the machine in s2,
\* whatever the payload.
C1_DefinedTransitionTaken ==
  (IsTrigger /\ Defined(last.event, last.pre))
    => /\ last.result = "Ok"
       /\ state = latest[<<last.event, last.pre>>]

\* C1 witness: a trigger_with carrying a String payload moved the machine to
\* another state along the defined transition.
C1_Witness ==
  /\ last.op = "trigger_with"
  /\ last.payload.type = "String"
  /\ Defined(last.event, last.pre)
  /\ last.result = "Ok"
  /\ state # last.pre
  /\ state = latest[<<last.event, last.pre>>]

\* C2: a trigger of an event that has no transition defined anywhere returns
\* EventInvalid and leaves the current state unchanged.
C2_UndefinedEventIsEventInvalid ==
  (IsTrigger /\ ~EventDefined(last.event))
    => /\ last.result = "EventInvalid"
       /\ state = last.pre

\* C3: a trigger of an event that has some transition defined, from a state
\* it has no destination for, returns StateInvalid and leaves the current
\* state unchanged.
C3_UndefinedSourceIsStateInvalid ==
  (IsTrigger /\ EventDefined(last.event) /\ ~Defined(last.event, last.pre))
    => /\ last.result = "StateInvalid"
       /\ state = last.pre

\* C3 witness: an event defined from the other state only was triggered.
C3_Witness ==
  /\ IsTrigger
  /\ EventDefined(last.event)
  /\ ~Defined(last.event, last.pre)
  /\ last.result = "StateInvalid"
  /\ state = last.pre

\* C4: last write wins. Every pair (e, s1) that has been defined has exactly
\* the destination of its latest definition: a trigger of e from s1 returns
\* Ok with that destination, and every trigger that returned Ok moved the
\* machine to the latest destination of its pair, never to an overwritten one.
C4_LastWriteWins ==
  /\ \A e \in Events, s1 \in States :
        Defined(e, s1)
          => Lookup(transitions, s1, e)
               = [result |-> "Ok", state |-> latest[<<e, s1>>]]
  /\ TriggeredOk => state = latest[<<last.event, last.pre>>]
  /\ (last.op = "when" /\ last.old # last.mapping[1][2])
       => Lookup(transitions, last.mapping[1][1], last.event).state # last.old

\* C4 witness: when(e, s1, b) has just overwritten the destination a # b of
\* (e, s1) while the machine is in s1, and a trigger of e leads to b.
C4_Witness ==
  /\ last.op = "when"
  /\ last.old \notin {NoDest, last.mapping[1][2]}
  /\ last.mapping[1][1] = state
  /\ TriggerWith(transitions, callbacks, state, last.event, UnitPayload).state
       = last.mapping[1][2]

C6_PlainCallbackAlwaysInvoked ==
  TriggeredOk =>
    \A i \in 1..MaxCallbacks :
      (/\ StateKey(state) \in DOMAIN callbacks
       /\ i <= Len(callbacks[StateKey(state)])
       /\ callbacks[StateKey(state)][i].kind = "plain")
        => Invoked(StateKey(state), i)

\* C6 witness: a trigger_with carrying a u32 payload entered a state with an
\* on_enter callback, which was invoked.
C6_Witness ==
  /\ last.op = "trigger_with"
  /\ last.payload.type = "u32"
  /\ last.result = "Ok"
  /\ StateKey(state) \in DOMAIN callbacks
  /\ callbacks[StateKey(state)][1].kind = "plain"
  /\ Invoked(StateKey(state), 1)

\* C7: a trigger that returns Ok with destination d calls exactly the thunks
\* registered for d and those registered for any state; a thunk registered
\* for another state, the source included, is not called.
C7_DispatchedExactlySelected ==
  TriggeredOk =>
    \A k \in DOMAIN callbacks :
      \A i \in 1..Len(callbacks[k]) :
        Dispatched(k, i) <=> k \in {StateKey(state), AnyState}

\* C7 witness: the machine left a state that has a callback and entered
\* another; the any-state callback was called, the source's was not.
C7_Witness ==
  /\ TriggeredOk
  /\ state # last.pre
  /\ StateKey(last.pre) \in DOMAIN callbacks
  /\ AnyState \in DOMAIN callbacks
  /\ Dispatched(AnyState, 1)
  /\ ~Dispatched(StateKey(last.pre), 1)

\* C8: within one trigger the callbacks run in this order: those of the
\* entered state in registration order, then the any-state ones in
\* registration order; no any-state callback runs before a state-specific
\* one.
C8_StateSpecificBeforeAnyState ==
  TriggeredOk =>
    /\ \A i, j \in 1..Len(dispatched) :
          i < j =>
            /\ dispatched[i].key = AnyState => dispatched[j].key = AnyState
            /\ dispatched[i].key = dispatched[j].key
                 => dispatched[i].idx < dispatched[j].idx
    /\ \A i, j \in 1..Len(invoked) :
          i < j =>
            /\ invoked[i].key = AnyState => invoked[j].key = AnyState
            /\ invoked[i].key = invoked[j].key
                 => invoked[i].idx < invoked[j].idx

\* C8 witness: a trigger ran a callback of the entered state and then an
\* any-state callback.
C8_Witness ==
  /\ TriggeredOk
  /\ Len(invoked) = 2
  /\ invoked[1].key = StateKey(state)
  /\ invoked[2].key = AnyState

\* C9: triggerable_events() is exactly the set of events that have a
\* transition defined from the current state.
C9_TriggerableEventsExact ==
  triggerable_events(transitions, state)
    = {e \in Events : Defined(e, state)}

\* C9 witness: with Start defined from Idle only and Pause from Running only,
\* a machine that a trigger has brought to Idle has triggerable events
\* {Start}.
C9_Witness ==
  /\ TriggeredOk
  /\ state = "Idle"
  /\ Defined("Start", "Idle") /\ ~Defined("Start", "Running")
  /\ Defined("Pause", "Running") /\ ~Defined("Pause", "Idle")
  /\ triggerable_events(transitions, state) = {"Start"}

\* C10: states() is exactly the union of the sources and the destinations of
\* the transitions defined, visited or not.
C10_StatesAreSourcesAndDestinations ==
  states(transitions)
    = {s \in States :
         \E e \in Events, s1 \in States :
           Defined(e, s1) /\ s \in {s1, latest[<<e, s1>>]}}

\* C10 witness: the first transition of the table has just been defined, so
\* no trigger has moved the machine yet, and states() holds a state other
\* than the one the machine was constructed in.
C10_Witness ==
  /\ last.op = "when"
  /\ last.old = NoDest
  /\ NumEntries(transitions) = 1
  /\ \E s \in states(transitions) : s # state

\* C11: events() is exactly the set of events that have at least one
\* transition defined: every event it returns has a (source, destination)
\* entry.
C11_EventsHaveATransition ==
  events(transitions) = {e \in Events : EventDefined(e)}

\* when(e, from, to) for each pair of the mapping, in sequence order.
RECURSIVE WhenEach(_, _, _)
WhenEach(t, event, pairs) ==
  IF pairs = <<>> THEN t
  ELSE WhenEach(WhenTable(t, event, Head(pairs)[1], Head(pairs)[2]), event,
                Tail(pairs))

\* C12: when_iter(e, pairs) leaves the table, and with it events(), states()
\* and the result of every later trigger, as the calls when(e, from, to) for
\* each pair in sequence order leave them.
C12_WhenIterIsWhenForEachPair ==
  [][\A e \in Events, m \in PairSeqs :
       when_iter(e, m) =>
         LET t2 == WhenEach(transitions, e, m)
         IN  /\ transitions' = t2
             /\ events(transitions') = events(t2)
             /\ states(transitions') = states(t2)
             /\ \A e2 \in Events, s \in States :
                   Lookup(transitions', s, e2) = Lookup(t2, s, e2)]_vars

C14_CallbackReceivesEventAndPayload ==
  TriggeredOk =>
    \A j \in 1..Len(invoked) :
      /\ invoked[j].event = last.event
      /\ callbacks[invoked[j].key][invoked[j].idx].kind = "typed"
            => invoked[j].payload = last.payload

\* C14 witness: trigger_with(e, 10u32) ran a callback registered with
\* P = u32, which received e and 10.
C14_Witness ==
  /\ last.op = "trigger_with"
  /\ last.result = "Ok"
  /\ last.payload = [type |-> "u32", val |-> 10]
  /\ \E j \in 1..Len(invoked) :
        /\ callbacks[invoked[j].key][invoked[j].idx] = wrap_callback("u32")
        /\ invoked[j].event = last.event
        /\ invoked[j].payload.val = 10

\* C15: Machine::new(s) leaves the machine in state s; and as long as neither
\* when nor when_iter has been called, events(), states() and
\* triggerable_events() are empty and every trigger returns EventInvalid and
\* leaves the state unchanged.
C15_FreshMachineIsEmpty ==
  /\ last.op = "new" => state = last.pre
  /\ ~configured =>
        /\ events(transitions) = {}
        /\ states(transitions) = {}
        /\ triggerable_events(transitions, state) = {}
        /\ IsTrigger => (last.result = "EventInvalid" /\ state = last.pre)
        /\ \A e \in Events, p \in Payloads :
              LET r == TriggerWith(transitions, callbacks, state, e, p)
              IN  r.result = "EventInvalid" /\ r.state = state

\* C15 witness: a machine with a callback registered and no transition
\* defined was triggered; the trigger returned EventInvalid.
C15_Witness ==
  /\ ~configured
  /\ callbacks # EmptyMap
  /\ last.op = "trigger_with"
  /\ last.result = "EventInvalid"
  /\ state = last.pre

\* C16: the current state changes only in a trigger or trigger_with that
\* returns Ok: no other operation, and no trigger that returns an error,
\* changes it.
C16_StateChangesOnlyInOkTrigger ==
  [][state' # state =>
       /\ last'.op \in {"trigger", "trigger_with"}
       /\ last'.result = "Ok"
       /\ \E e \in Events :
             \/ trigger(e)
             \/ \E p \in Payloads : trigger_with(e, p)]_vars

\* C16 witness: a successful bare trigger on a machine without callbacks has
\* changed the current state.
C16_Witness ==
  /\ last.op = "trigger"
  /\ last.result = "Ok"
  /\ callbacks = EmptyMap
  /\ state # last.pre

\* C17: in a successful trigger the state is set to the destination before
\* any callback is called: every thunk called sees the destination as the
\* current state, the state-specific thunks called are those of the
\* destination, not of the source, and the state after the trigger is still
\* the destination.
C17_StateAssignedBeforeCallbacks ==
  TriggeredOk =>
    LET dest == latest[<<last.event, last.pre>>]
    IN  /\ state = dest
        /\ \A j \in 1..Len(dispatched) :
              /\ dispatched[j].at = dest
              /\ dispatched[j].key \in {StateKey(dest), AnyState}
        /\ StateKey(dest) \in DOMAIN callbacks =>
              \A i \in 1..Len(callbacks[StateKey(dest)]) :
                Dispatched(StateKey(dest), i)

\* C17 witness: a trigger moved the machine from a state with an on_enter
\* callback to another state with one; only the destination's ran, and it ran
\* with the machine already in the destination.
C17_Witness ==
  /\ TriggeredOk
  /\ state # last.pre
  /\ StateKey(last.pre) \in DOMAIN callbacks
  /\ StateKey(state) \in DOMAIN callbacks
  /\ Len(dispatched) = 1
  /\ dispatched[1].key = StateKey(state)
  /\ dispatched[1].at = state
  /\ ~Dispatched(StateKey(last.pre), 1)

\* Registries to compare the registry of the machine with.
OtherRegistries ==
  {EmptyMap}
    \cup {PushCallback(EmptyMap, k, th) :
            k \in TriggerKeys,
            th \in {PlainThunk} \cup {wrap_callback(P) : P \in CallbackTypes}}

\* C18: the result of a trigger and the state after it are a function of the
\* event, the current state and the table only: they are those of the lookup,
\* and the same with any other registry of callbacks and any other payload.
C18_ResultIndependentOfCallbacks ==
  IsTrigger =>
    /\ [result |-> last.result, state |-> state]
          = Lookup(transitions, last.pre, last.event)
    /\ \A cbs \in OtherRegistries, p \in Payloads :
          LET r == TriggerWith(transitions, cbs, last.pre, last.event, p)
          IN  r.result = last.result /\ r.state = state

\* C18 witness: a trigger_with carrying a String moved the machine although
\* the only callback it selected expects a u32 and was skipped.
C18_Witness ==
  /\ last.op = "trigger_with"
  /\ last.payload.type = "String"
  /\ last.result = "Ok"
  /\ state # last.pre
  /\ Len(dispatched) = 1
  /\ callbacks[dispatched[1].key][dispatched[1].idx] = wrap_callback("u32")
  /\ invoked = <<>>

\* The list of a key before a step, an absent key holding no thunk.
ListOf(cbs, key) == IF key \in DOMAIN cbs THEN cbs[key] ELSE <<>>

\* A step appends exactly thunk to the list of key and changes no other list.
AppendsOne(key, thunk) ==
  /\ DOMAIN callbacks' = DOMAIN callbacks \cup {key}
  /\ callbacks'[key] = Append(ListOf(callbacks, key), thunk)
  /\ \A k \in DOMAIN callbacks \ {key} : callbacks'[k] = callbacks[k]

\* C19: the callback lists are append-only. Only a registration changes the
\* registry; every step keeps every key, with its previous list as a prefix
\* of its new list; a registration appends exactly one thunk to the list of
\* the key it targets and changes no other list.
C19_CallbackListsAppendOnly ==
  [][/\ callbacks' # callbacks =>
          /\ last'.op \in {"on_enter", "on_enter_with", "on_transition",
                            "on_transition_with"}
          /\ \A k \in DOMAIN callbacks :
                /\ k \in DOMAIN callbacks'
                /\ Len(callbacks[k]) <= Len(callbacks'[k])
                /\ SubSeq(callbacks'[k], 1, Len(callbacks[k])) = callbacks[k]
     /\ \A s \in States :
          (last'.op = "on_enter" /\ on_enter(s))
            => AppendsOne(StateKey(s), PlainThunk)
     /\ \A s \in States, P \in CallbackTypes :
          (last'.op = "on_enter_with" /\ on_enter_with(s, P))
            => AppendsOne(StateKey(s), wrap_callback(P))
     /\ (last'.op = "on_transition" /\ on_transition)
          => AppendsOne(AnyState, PlainThunk)
     /\ \A P \in CallbackTypes :
          (last'.op = "on_transition_with" /\ on_transition_with(P))
            => AppendsOne(AnyState, wrap_callback(P))
     /\ last'.op \in {"on_enter", "on_enter_with", "on_transition",
                       "on_transition_with"}
          => NumCallbacks(callbacks') = NumCallbacks(callbacks) + 1]_vars

\* C19 witness: on_transition_with::<u32> has appended its thunk behind a
\* no-payload thunk registered before under the any-state key.
C19_Witness ==
  /\ last.op = "on_transition_with"
  /\ ListOf(callbacks, AnyState) = <<PlainThunk, wrap_callback("u32")>>

\* The number of times the last trigger ran the user callback at place (k, i).
TimesInvoked(k, i) ==
  Cardinality({j \in 1..Len(invoked) :
                 invoked[j].key = k /\ invoked[j].idx = i})

\* C20: a successful trigger runs every selected registration whose type
\* matches exactly once, and no other: a callback registered n times under a
\* key is n registrations and runs n times.
C20_EachRegistrationInvokedOnce ==
  TriggeredOk =>
    /\ \A c \in SelectedPlaces(state) :
          TimesInvoked(c[1], c[2])
            = IF \/ callbacks[c[1]][c[2]].kind = "plain"
                 \/ Downcast(last.payload, callbacks[c[1]][c[2]].ptype)
                THEN 1 ELSE 0
    /\ Len(dispatched) = Cardinality(SelectedPlaces(state))
    /\ \A j \in 1..Len(invoked) :
          <<invoked[j].key, invoked[j].idx>> \in SelectedPlaces(state)

\* C20 witness: the same no-payload callback was registered twice under the
\* any-state key and a trigger ran it twice.
C20_Witness ==
  /\ TriggeredOk
  /\ ListOf(callbacks, AnyState) = <<PlainThunk, PlainThunk>>
  /\ Len(invoked) = 2
  /\ TimesInvoked(AnyState, 1) = 1
  /\ TimesInvoked(AnyState, 2) = 1

\* C21: a trigger that fails, with EventInvalid or with StateInvalid, calls
\* no thunk and runs no callback, state-specific or any-state, whatever the
\* payload.
C21_FailedTriggerInvokesNothing ==
  (IsTrigger /\ last.result \in {"EventInvalid", "StateInvalid"})
    => dispatched = <<>> /\ invoked = <<>>

\* C21 witness: a trigger_with carrying a u32 failed with StateInvalid on a
\* machine that has a callback for its current state and an any-state
\* callback expecting a u32; neither ran.
C21_Witness ==
  /\ last.op = "trigger_with"
  /\ last.payload.type = "u32"
  /\ last.result = "StateInvalid"
  /\ ListOf(callbacks, StateKey(state)) = <<PlainThunk>>
  /\ ListOf(callbacks, AnyState) = <<wrap_callback("u32")>>
  /\ invoked = <<>>

\* C22: in every reachable state an event is in triggerable_events() if and
\* only if a trigger of it would return Ok, whatever the payload, and a
\* trigger made returned Ok if and only if its event was triggerable before
\* it; triggerable_events() is a subset of events().
C22_TriggerableIffTriggerOk ==
  /\ \A e \in Events, p \in Payloads :
        e \in triggerable_events(transitions, state)
          <=> TriggerWith(transitions, callbacks, state, e, p).result = "Ok"
  /\ IsTrigger =>
        (last.event \in triggerable_events(transitions, last.pre)
           <=> last.result = "Ok")
  /\ triggerable_events(transitions, state) \subseteq events(transitions)

\* C22 witness: both events are in events(), one is triggerable and a trigger
\* of the other has just failed.
C22_Witness ==
  /\ IsTrigger
  /\ last.result = "StateInvalid"
  /\ events(transitions) = Events
  /\ triggerable_events(transitions, state) = Events \ {last.event}

\* C24: a self-transition, defined by when(e, s, s) and triggered from s, is
\* a successful transition: the trigger returns Ok, the state stays s, and
\* the callbacks of entering s, then the any-state callbacks, are called as
\* for any other transition.
C24_SelfTransitionDispatches ==
  (IsTrigger /\ latest[<<last.event, last.pre>>] = last.pre)
    => /\ last.result = "Ok"
       /\ state = last.pre
       /\ Len(dispatched) = Cardinality(SelectedPlaces(last.pre))
       /\ \A c \in SelectedPlaces(last.pre) : Dispatched(c[1], c[2])
       /\ \A c \in SelectedPlaces(last.pre) :
             callbacks[c[1]][c[2]].kind = "plain" => Invoked(c[1], c[2])

\* C24 witness: a self-transition was triggered on a machine with an
\* on_enter callback for that state and an any-state callback; both ran, in
\* that order.
C24_Witness ==
  /\ IsTrigger
  /\ latest[<<last.event, last.pre>>] = last.pre
  /\ last.result = "Ok"
  /\ state = last.pre
  /\ ListOf(callbacks, StateKey(state)) = <<PlainThunk>>
  /\ ListOf(callbacks, AnyState) = <<PlainThunk>>
  /\ Len(invoked) = 2
  /\ invoked[1].key = StateKey(state)
  /\ invoked[2].key = AnyState

\* The destination the table holds for (e, s), if any.
Entry(t, e, s) ==
  IF e \in DOMAIN t /\ s \in DOMAIN t[e] THEN t[e][s] ELSE NoDest

\* C23: a trigger or trigger_with, successful or not, leaves the table and
\* the registry unchanged; when(e, s1, s2) sets the destination of (e, s1)
\* to s2 and leaves every other (event, source) pair and every callback list
\* unchanged.
C23_TriggerAndWhenFrame ==
  [][/\ last'.op \in {"trigger", "trigger_with"}
          => transitions' = transitions /\ callbacks' = callbacks
     /\ last'.op = "when" =>
          \A e \in Events, s1 \in States, s2 \in States :
            when(e, s1, s2) =>
              /\ callbacks' = callbacks
              /\ Entry(transitions', e, s1) = s2
              /\ \A e2 \in Events, s \in States :
                    <<e2, s>> # <<e, s1>>
                      => Entry(transitions', e2, s) = Entry(transitions, e2, s)
    ]_vars

\* C23 witness: when has redefined one pair of an event that has another
\* pair, which kept its destination, on a machine with a callback.
C23_Witness ==
  /\ last.op = "when"
  /\ last.old \notin {NoDest, last.mapping[1][2]}
  /\ callbacks # EmptyMap
  /\ \E s \in States \ {last.mapping[1][1]} :
        /\ Defined(last.event, s)
        /\ Entry(transitions, last.event, s) = latest[<<last.event, s>>]

\* The step is an operation on machine i.
OperationOn(i) ==
  \/ \E e \in CallbackEvents, s \in States, n \in States :
       when_on(i, e, s, n)
  \/ \E e \in CallbackEvents, m \in ClonePairSeqs : when_iter_on(i, e, m)
  \/ \E s \in States : on_enter_on(i, s)
  \/ \E s \in States, P \in CallbackTypes : on_enter_with_on(i, s, P)
  \/ on_transition_on(i)
  \/ \E P \in CallbackTypes : on_transition_with_on(i, P)
  \/ \E e \in Events : trigger_on(i, e)
  \/ \E e \in Events, p \in Payloads : trigger_with_on(i, e, p)

\* C25: a clone starts with the state, the table and the callback lists of
\* the original, thunk for thunk, and cloning changes nothing of the
\* original; afterwards an operation applied to one copy (a trigger, when,
\* when_iter or a registration) never changes the state, the table or the
\* callback lists of the other.
C25_CloneEqualThenIndependent ==
  [][/\ Len(machines') > Len(machines)
          => View(2)' = View(1) /\ View(1)' = View(1)
     /\ Len(machines) = 2 =>
          \A i \in 1..2 :
            View(3 - i)' # View(3 - i) => ~OperationOn(i)
    ]_vars

\* C25 witness: the original had a transition when it was cloned; since then
\* a callback was registered on one copy only and a trigger moved one copy
\* only.
C25_Witness ==
  /\ Len(machines) = 2
  /\ View(1).transitions # EmptyMap
  /\ View(1).transitions = View(2).transitions
  /\ View(1).callbacks # View(2).callbacks
  /\ View(1).state # View(2).state

====
